---- MODULE Spec2Model ----
(***************************************************************************)
(* The Suggestion Database of the IDE (model/suggestion_database.rs):      *)
(* normalisation of Language Server entries, the versioned store, its      *)
(* bootstrap (create_synchronized / from_ls_response) and the application  *)
(* of update events (apply_update_event).                                  *)
(*                                                                         *)
(* Conventions of the model                                                *)
(*   String       a sequence of one-character strings, <<"P",".","M">>     *)
(*   Option<T>    a sequence of length at most one: None, Some(x)          *)
(*   Result<T,E>  a record [ok, val]: Ok(x), Err                           *)
(*   HashMap<K,V> a function whose DOMAIN is the set of keys present       *)
(***************************************************************************)
EXTENDS Integers, Sequences, FiniteSets, TLC

VARIABLES
    pc,            \* position of the create_synchronized future
    fetched,       \* outcome of get_suggestions_database(): "none", "ok", "err"
    exists,        \* TRUE when a SuggestionDatabase value has been constructed
    entries,       \* SuggestionDatabase.entries
    version,       \* SuggestionDatabase.version
    lastOp,        \* history: the last constructor or apply_update_event call
    prevEntries,   \* history: entries before the last call
    prevVersion,   \* history: version before the last call
    removed,       \* history: ids removed, with no successful Add since
    removedNoAdd,  \* history: ids removed, with no Add at all since
    lastApplied,   \* history: current_version of the last snapshot or event
    cleanEntries,  \* history: entries of a store fed the same inputs without
                   \*          the records and Adds that fail to normalize
    cleanVersion,  \* history: version of that store
    raw,           \* a SuggestionEntry received from the Language Server
    normalized,    \* the result of Entry::from_ls_entry(raw), once called
    code,          \* the result of code_to_insert on that entry, once called
    mem,           \* the store as memory: [rcs, entries, version]
    call,          \* the frame of the apply_update_event call in progress
    handle,        \* the Rc<Entry> a reader keeps from a get, if any
    ret,           \* what the reader's last call returned, until it goes on
    whole,         \* history: the store after all events begun so far, each
                   \*          applied as a whole
    js,            \* the JSExecutor: [executor, event_loop, cb_handle]
    callbacks,     \* the callbacks each EventLoop calls on a frame
    jsOp           \* history: the last call on the JSExecutor

storeVars == <<pc, fetched, exists, entries, version, lastOp, prevEntries,
               prevVersion, removed, removedNoAdd, lastApplied, cleanEntries,
               cleanVersion>>

entryVars == <<raw, normalized, code>>

rcVars == <<mem, call, handle, ret, whole>>

jsVars == <<js, callbacks, jsOp>>

vars == <<storeVars, entryVars, rcVars, jsVars>>

-----------------------------------------------------------------------------
(* Bounds of the model. *)

\* Longest `updates` vector of an event.
MaxUpdates == 3
\* Longest `entries` vector of a GetSuggestionDatabase response.
MaxSnapshot == 2
\* Longest `updates` vector of an event applied update by update.
MaxCallUpdates == 2
\* Most tasks spawned on one JSExecutor.
MaxTasks == 3

-----------------------------------------------------------------------------
(* Option and Result. *)

None == <<>>
Some(x) == <<x>>
Unwrap(o) == o[1]

Ok(x) == [ok |-> TRUE, val |-> <<x>>]
Err == [ok |-> FALSE, val |-> <<>>]

\* All sequences over S of length at most n.
SeqUpTo(S, n) == UNION {[1..k -> S] : k \in 0..n}

-----------------------------------------------------------------------------
(* QualifiedName: the module path of an entry.  Its parser is defined in   *)
(* double_representation::module; here it follows the specification: the   *)
(* text is split at the access operator "." and is malformed when a        *)
(* segment is empty or when no module segment follows the project name.    *)

RECURSIVE SplitSegments(_, _)
SplitSegments(text, cur) ==
    IF text = <<>> THEN <<cur>>
    ELSE IF Head(text) = "."
         THEN <<cur>> \o SplitSegments(Tail(text), <<>>)
         ELSE SplitSegments(Tail(text), Append(cur, Head(text)))

QualifiedName_try_from(text) ==
    LET segments == SplitSegments(text, <<>>)
    IN  IF Len(segments) >= 2 /\ \A i \in 1..Len(segments) : segments[i] # <<>>
        THEN Ok(segments)
        ELSE Err

\* QualifiedName::name(): the last segment of the path.
QualifiedName_name(module) == module[Len(module)]

-----------------------------------------------------------------------------
(* Entry::from_ls_entry. *)

\* from_ls_entry as it is, for the variants below to start from.
m_from_ls_entry_copy(entry) ==
    LET module == QualifiedName_try_from(entry.module)
    IN  IF ~module.ok THEN Err
        ELSE CASE entry.shape = "SuggestionEntryAtom" ->
                    Ok([name          |-> entry.name,
                        arguments     |-> entry.arguments,
                        return_type   |-> entry.return_type,
                        documentation |-> entry.documentation,
                        module        |-> Unwrap(module.val),
                        self_type     |-> None,
                        kind          |-> "Atom"])
               [] entry.shape = "SuggestionEntryMethod" ->
                    Ok([name          |-> entry.name,
                        arguments     |-> entry.arguments,
                        return_type   |-> entry.return_type,
                        documentation |-> entry.documentation,
                        module        |-> Unwrap(module.val),
                        self_type     |-> Some(entry.self_type),
                        kind          |-> "Method"])
               [] entry.shape = "SuggestionEntryFunction" ->
                    Ok([name          |-> entry.name,
                        arguments     |-> entry.arguments,
                        return_type   |-> entry.return_type,
                        documentation |-> None,
                        module        |-> Unwrap(module.val),
                        self_type     |-> None,
                        kind          |-> "Function"])
               [] entry.shape = "SuggestionEntryLocal" ->
                    Ok([name          |-> entry.name,
                        arguments     |-> <<>>,
                        return_type   |-> entry.return_type,
                        documentation |-> None,
                        module        |-> Unwrap(module.val),
                        self_type     |-> None,
                        kind          |-> "Local"])

\* A Function arm that was copied from the Method arm and kept its kind.
m_from_ls_entry_function_as_method(entry) ==
    LET result == m_from_ls_entry_copy(entry)
    IN  IF result.ok /\ entry.shape = "SuggestionEntryFunction"
        THEN Ok([Unwrap(result.val) EXCEPT !.kind = "Method"])
        ELSE result

\* A Function arm that falls back to an empty path when the module does not
\* parse (unwrap_or_default in place of `?`).
m_from_ls_entry_function_defaults(entry) ==
    IF entry.shape = "SuggestionEntryFunction"
       /\ ~QualifiedName_try_from(entry.module).ok
    THEN Ok([name          |-> entry.name,
             arguments     |-> entry.arguments,
             return_type   |-> entry.return_type,
             documentation |-> None,
             module        |-> <<>>,
             self_type     |-> None,
             kind          |-> "Function"])
    ELSE m_from_ls_entry_copy(entry)

from_ls_entry(entry) ==
    LET module == QualifiedName_try_from(entry.module)
    IN  IF ~module.ok THEN Err
        ELSE CASE entry.shape = "SuggestionEntryAtom" ->
                    Ok([name          |-> entry.name,
                        arguments     |-> entry.arguments,
                        return_type   |-> entry.return_type,
                        documentation |-> entry.documentation,
                        module        |-> Unwrap(module.val),
                        self_type     |-> None,
                        kind          |-> "Atom"])
               [] entry.shape = "SuggestionEntryMethod" ->
                    Ok([name          |-> entry.name,
                        arguments     |-> entry.arguments,
                        return_type   |-> entry.return_type,
                        documentation |-> entry.documentation,
                        module        |-> Unwrap(module.val),
                        self_type     |-> Some(entry.self_type),
                        kind          |-> "Method"])
               [] entry.shape = "SuggestionEntryFunction" ->
                    Ok([name          |-> entry.name,
                        arguments     |-> entry.arguments,
                        return_type   |-> entry.return_type,
                        documentation |-> None,
                        module        |-> Unwrap(module.val),
                        self_type     |-> None,
                        kind          |-> "Function"])
               [] entry.shape = "SuggestionEntryLocal" ->
                    Ok([name          |-> entry.name,
                        arguments     |-> <<>>,
                        return_type   |-> entry.return_type,
                        documentation |-> None,
                        module        |-> Unwrap(module.val),
                        self_type     |-> None,
                        kind          |-> "Local"])

\* A code_to_insert that qualifies the name of every entry with a self type.
m_code_to_insert_any_self_type(self) ==
    LET module == QualifiedName_name(self.module)
    IN  IF self.self_type # None
        THEN module \o <<".">> \o self.name
        ELSE self.name

\* Entry::code_to_insert.  Option::contains holds of Some(x) with x equal to
\* the argument.
code_to_insert(self) ==
    LET module == QualifiedName_name(self.module)
    IN  IF self.self_type = Some(module)
        THEN module \o <<".">> \o self.name
        ELSE self.name

-----------------------------------------------------------------------------
(* HashMap operations used by the store. *)

\* HashMap::insert: insert or replace.
insert(map, id, entry) ==
    [k \in DOMAIN map \cup {id} |-> IF k = id THEN entry ELSE map[k]]

\* A Remove arm that leaves the map alone.
m_remove_nothing(map, id) == map

\* HashMap::remove: nothing happens when the key is absent.
remove(map, id) == [k \in DOMAIN map \ {id} |-> map[k]]

\* HashMap::new
EmptyMap == [k \in {} |-> None]

\* HashMap::get(..).cloned()
lookup(map, id) == IF id \in DOMAIN map THEN Some(map[id]) ELSE None

-----------------------------------------------------------------------------
(* SuggestionDatabase. *)

\* A loop body that keeps the first record of an id: entry(id).or_insert.
m_from_ls_response_entry_keeps_first(map, ls_entry) ==
    LET id     == ls_entry.id
        result == from_ls_entry(ls_entry.suggestion)
    IN  IF result.ok /\ id \notin DOMAIN map
        THEN insert(map, id, Unwrap(result.val))
        ELSE map

\* The body of the loop of from_ls_response: one ls_entry.
from_ls_response_entry(map, ls_entry) ==
    LET id     == ls_entry.id
        result == from_ls_entry(ls_entry.suggestion)
    IN  IF result.ok THEN insert(map, id, Unwrap(result.val))
        ELSE map

RECURSIVE from_ls_response_entries(_, _)
from_ls_response_entries(map, ls_entries) ==
    IF ls_entries = <<>> THEN map
    ELSE from_ls_response_entries(from_ls_response_entry(map, Head(ls_entries)),
                                  Tail(ls_entries))

\* A constructor that adopts the version only of a response without invalid
\* entries, and keeps the default version otherwise.
m_from_ls_response_clean_only(response) ==
    [entries |-> from_ls_response_entries(EmptyMap, response.entries),
     version |-> IF \A i \in 1..Len(response.entries) :
                       from_ls_entry(response.entries[i].suggestion).ok
                 THEN response.current_version ELSE 0]

from_ls_response(response) ==
    [entries |-> from_ls_response_entries(EmptyMap, response.entries),
     version |-> response.current_version]

\* SuggestionDatabase::get
get(id) == lookup(entries, id)

\* An Add arm that inserts only ids the map does not hold yet.
m_apply_update_add_if_absent(map, update) ==
    IF update.type = "Add"
    THEN LET result == from_ls_entry(update.entry)
         IN  IF result.ok /\ update.id \notin DOMAIN map
             THEN insert(map, update.id, Unwrap(result.val))
             ELSE map
    ELSE remove(map, update.id)

\* An Add arm where an entry that fails to normalize evicts the old one.
m_apply_update_evicts_on_error(map, update) ==
    IF update.type = "Add"
    THEN LET result == from_ls_entry(update.entry)
         IN  IF result.ok THEN insert(map, update.id, Unwrap(result.val))
             ELSE remove(map, update.id)
    ELSE remove(map, update.id)

\* The body of the loop of apply_update_event: one update.
apply_update(map, update) ==
    IF update.type = "Add"
    THEN LET result == from_ls_entry(update.entry)
         IN  IF result.ok THEN insert(map, update.id, Unwrap(result.val))
             ELSE map
    ELSE remove(map, update.id)

\* A loop that visits the updates last to first.
RECURSIVE m_apply_updates_reversed(_, _)
m_apply_updates_reversed(map, updates) ==
    IF updates = <<>> THEN map
    ELSE apply_update(m_apply_updates_reversed(map, Tail(updates)), Head(updates))

\* A loop that gives up at the Remove of an id the map does not hold.
RECURSIVE m_apply_updates_strict_remove(_, _)
m_apply_updates_strict_remove(map, updates) ==
    IF updates = <<>> THEN map
    ELSE IF Head(updates).type = "Remove" /\ Head(updates).id \notin DOMAIN map
         THEN map
         ELSE m_apply_updates_strict_remove(apply_update(map, Head(updates)),
                                            Tail(updates))

RECURSIVE apply_updates(_, _)
apply_updates(map, updates) ==
    IF updates = <<>> THEN map
    ELSE apply_updates(apply_update(map, Head(updates)), Tail(updates))

\* The updates up to the first Add that fails to normalize.
RECURSIVE UpToFirstError(_)
UpToFirstError(updates) ==
    IF updates = <<>> THEN <<>>
    ELSE IF Head(updates).type = "Add" /\ ~from_ls_entry(Head(updates).entry).ok
         THEN <<>>
         ELSE <<Head(updates)>> \o UpToFirstError(Tail(updates))

\* A call that returns at the first Add that fails to normalize (`?`).
m_apply_update_event_propagates(db, event) ==
    LET done == UpToFirstError(event.updates)
    IN  IF done = event.updates
        THEN [entries |-> apply_updates(db.entries, event.updates),
              version |-> event.current_version,
              ret     |-> "()"]
        ELSE [entries |-> apply_updates(db.entries, done),
              version |-> db.version,
              ret     |-> "Err"]

\* A call that sets the version inside the loop, once per update.
m_apply_update_event_version_in_loop(db, event) ==
    [entries |-> apply_updates(db.entries, event.updates),
     version |-> IF event.updates = <<>> THEN db.version
                 ELSE event.current_version,
     ret     |-> "()"]

\* A call that ignores an event that is not newer than the store.
m_apply_update_event_monotonic(db, event) ==
    IF event.current_version <= db.version
    THEN [entries |-> db.entries, version |-> db.version, ret |-> "()"]
    ELSE [entries |-> apply_updates(db.entries, event.updates),
          version |-> event.current_version,
          ret     |-> "()"]

\* apply_update_event on a database db = [entries, version]; ret is the value
\* the call returns, the unit value.
apply_update_event(db, event) ==
    [entries |-> apply_updates(db.entries, event.updates),
     version |-> event.current_version,
     ret     |-> "()"]

\* A bootstrap that fails on a response holding an invalid entry.
m_create_synchronized_strict(response) ==
    IF response.ok
       /\ \A i \in 1..Len(Unwrap(response.val).entries) :
             from_ls_entry(Unwrap(response.val).entries[i].suggestion).ok
    THEN Ok(from_ls_response(Unwrap(response.val)))
    ELSE Err

\* create_synchronized from the point where the awaited request completes
\* with `response`, a Result.
create_synchronized(response) ==
    IF response.ok
    THEN Ok(from_ls_response(Unwrap(response.val)))
    ELSE Err

-----------------------------------------------------------------------------
(* The store at the level of its reference-counted cells: every entry of the *)
(* map is an Rc<Entry>, and get hands out a clone of that Rc.  A memory is   *)
(* [rcs, entries, version]: rcs maps the address of each live Rc allocation  *)
(* to [value, strong], entries maps an id to the address its Rc points to.   *)
(* borrow is the flag of the RefCell around the map: 0 when it is not         *)
(* borrowed, n > 0 under n shared borrows, -1 under a mutable borrow; panic   *)
(* is TRUE once a borrow or borrow_mut has found the map already borrowed.    *)

NoRcs == [a \in {} |-> None]

\* What reading through a pointer to a freed allocation gives.
Dangling == "dangling"

\* Rc::new: a fresh allocation with one strong reference.
Rc_new(rcs, value) ==
    LET addr == CHOOSE a \in 1..(Cardinality(DOMAIN rcs) + 1) :
                    /\ a \notin DOMAIN rcs
                    /\ \A b \in 1..(a - 1) : b \in DOMAIN rcs
    IN  [rcs  |-> [a \in DOMAIN rcs \cup {addr} |->
                      IF a = addr THEN [value |-> value, strong |-> 1]
                      ELSE rcs[a]],
         addr |-> addr]

\* Rc::clone: one more strong reference to the same allocation.
Rc_clone(rcs, addr) ==
    IF addr \in DOMAIN rcs THEN [rcs EXCEPT ![addr].strong = @ + 1] ELSE rcs

\* Drop of an Rc: the allocation is freed with its last strong reference.
Rc_drop(rcs, addr) ==
    IF addr \notin DOMAIN rcs THEN rcs
    ELSE IF rcs[addr].strong <= 1 THEN [a \in DOMAIN rcs \ {addr} |-> rcs[a]]
    ELSE [rcs EXCEPT ![addr].strong = @ - 1]

\* Deref of an Rc.
Rc_deref(rcs, addr) ==
    IF addr \in DOMAIN rcs THEN rcs[addr].value ELSE Dangling

\* RefCell::borrow: panics under a mutable borrow.
RefCell_borrow(m) ==
    IF m.borrow < 0 THEN [m EXCEPT !.panic = TRUE]
    ELSE [m EXCEPT !.borrow = @ + 1]

\* RefCell::borrow_mut: panics under any borrow.
RefCell_borrow_mut(m) ==
    IF m.borrow # 0 THEN [m EXCEPT !.panic = TRUE]
    ELSE [m EXCEPT !.borrow = -1]

\* Drop of a Ref.
Ref_drop(m) == [m EXCEPT !.borrow = @ - 1]

\* Drop of a RefMut.
RefMut_drop(m) == [m EXCEPT !.borrow = 0]

\* The map of a memory as values: what the Rcs of the map point to.
EntriesOf(m) ==
    [id \in DOMAIN m.entries |-> Rc_deref(m.rcs, m.entries[id])]

\* entries.insert(id, Rc::new(entry)): the Rc is made first, the Rc the map
\* held for id is returned by insert and dropped.
insert_rc(m, id, entry) ==
    LET new == Rc_new(m.rcs, entry)
    IN  [m EXCEPT !.rcs     = IF id \in DOMAIN m.entries
                              THEN Rc_drop(new.rcs, m.entries[id])
                              ELSE new.rcs,
                  !.entries = insert(m.entries, id, new.addr)]

\* entries.remove(&id): the Rc the map held, if any, is returned and dropped.
remove_rc(m, id) ==
    IF id \in DOMAIN m.entries
    THEN [m EXCEPT !.rcs     = Rc_drop(m.rcs, m.entries[id]),
                   !.entries = remove(m.entries, id)]
    ELSE m

\* The loop of from_ls_response on its local map.
RECURSIVE from_ls_response_entries_rc(_, _)
from_ls_response_entries_rc(m, ls_entries) ==
    IF ls_entries = <<>> THEN m
    ELSE LET result == from_ls_entry(Head(ls_entries).suggestion)
         IN  from_ls_response_entries_rc(
                 IF result.ok
                 THEN insert_rc(m, Head(ls_entries).id, Unwrap(result.val))
                 ELSE m,
                 Tail(ls_entries))

\* from_ls_response, as a memory.
from_ls_response_rc(response) ==
    [from_ls_response_entries_rc(
         [rcs |-> NoRcs, entries |-> EmptyMap, version |-> 0, borrow |-> 0,
          panic |-> FALSE],
         response.entries)
     EXCEPT !.version = response.current_version]

\* A get that returns the map's own pointer without cloning the Rc.
m_get_rc_without_clone(m, id) ==
    [mem |-> m, ret |-> lookup(m.entries, id)]

\* A get that moves the Rc out of the map: remove in place of get.
m_get_rc_takes(m, id) ==
    [mem |-> [m EXCEPT !.entries = remove(m.entries, id)],
     ret |-> lookup(m.entries, id)]

\* A get whose shared borrow of the map is still counted when it returns.
m_get_rc_keeps_borrow(m, id) ==
    LET b == RefCell_borrow(m)
    IN  IF b.panic THEN [mem |-> b, ret |-> None]
        ELSE IF id \in DOMAIN b.entries
        THEN [mem |-> [b EXCEPT !.rcs = Rc_clone(b.rcs, b.entries[id])],
              ret |-> Some(b.entries[id])]
        ELSE [mem |-> b, ret |-> None]

\* SuggestionDatabase::get: borrow the map, clone the Rc found for id; the
\* Ref is a temporary, dropped before get returns.
get_rc(m, id) ==
    LET b == RefCell_borrow(m)
    IN  IF b.panic THEN [mem |-> b, ret |-> None]
        ELSE IF id \in DOMAIN b.entries
        THEN [mem |-> Ref_drop([b EXCEPT !.rcs = Rc_clone(b.rcs, b.entries[id])]),
              ret |-> Some(b.entries[id])]
        ELSE [mem |-> Ref_drop(b), ret |-> None]

\* An Add arm that writes the name of the new entry into the allocation the
\* map already holds for the id, and goes on with the other fields later.
m_apply_update_rc_in_place(m, update) ==
    IF update.type = "Add"
    THEN LET result == from_ls_entry(update.entry)
         IN  IF ~result.ok THEN m
             ELSE IF update.id \in DOMAIN m.entries
             THEN [m EXCEPT !.rcs[m.entries[update.id]].value.name =
                                Unwrap(result.val).name]
             ELSE insert_rc(m, update.id, Unwrap(result.val))
    ELSE remove_rc(m, update.id)

\* The body of the loop of apply_update_event on the memory: one update,
\* under one borrow_mut of the map, whose RefMut is dropped where the body
\* ends.
apply_update_rc(m, update) ==
    LET b == RefCell_borrow_mut(m)
    IN  IF b.panic THEN b
        ELSE RefMut_drop(
                 IF update.type = "Add"
                 THEN LET result == from_ls_entry(update.entry)
                      IN  IF result.ok
                          THEN insert_rc(b, update.id, Unwrap(result.val))
                          ELSE b
                 ELSE remove_rc(b, update.id))

\* The frame of a call of apply_update_event: where it is (`at`), the
\* updates the loop has not taken yet, the version of the event; and for the
\* record the version found on entry, the number of updates taken and the
\* number of version.set so far.
NoCall ==
    [at |-> "idle", updates |-> <<>>, current_version |-> 0, old_version |-> 0,
     taken |-> 0, sets |-> 0]

enter_apply_update_event(m, event) ==
    [at |-> "loop", updates |-> event.updates,
     current_version |-> event.current_version, old_version |-> m.version,
     taken |-> 0, sets |-> 0]

\* An iteration that also stores the version of the event.
m_loop_apply_update_event_sets_version(m, frame) ==
    [mem  |-> [apply_update_rc(m, Head(frame.updates))
               EXCEPT !.version = frame.current_version],
     call |-> [frame EXCEPT !.updates = Tail(@), !.taken = @ + 1,
                            !.sets = @ + 1]]

\* One iteration of the loop of apply_update_event.
loop_apply_update_event(m, frame) ==
    [mem  |-> apply_update_rc(m, Head(frame.updates)),
     call |-> [frame EXCEPT !.updates = Tail(@), !.taken = @ + 1]]

\* self.version.set(event.current_version), after the loop.
set_version(m, frame) ==
    [mem  |-> [m EXCEPT !.version = frame.current_version],
     call |-> [frame EXCEPT !.at = "done", !.sets = @ + 1]]

\* A call that hands control back to the executor between two updates.
m_apply_update_event_yields_in_loop(at) == at = "loop"

\* The places of apply_update_event where it hands control back to the
\* executor: it is not an async fn and awaits nothing, so there is none.
apply_update_event_yields(at) == at \in {}

-----------------------------------------------------------------------------
(* JSExecutor.  An EventLoop calls the callbacks registered in it on every  *)
(* animation frame; add_callback returns the CallbackHandle of the callback *)
(* it registers, and the loop stops calling a callback whose handle has     *)
(* been dropped.  A CallbackHandle is [event_loop, n], n naming the         *)
(* callback within its loop.                                                *)

\* Values of EventLoop.
Loops == {1, 2, 3}

\* No loop has a callback.
NoCallbacks == [l \in Loops |-> {}]

\* event_loop.add_callback(cb)
EventLoop_add_callback(cbs, l) ==
    LET n == CHOOSE k \in 1..(Cardinality(cbs[l]) + 1) :
                 /\ k \notin cbs[l]
                 /\ \A j \in 1..(k - 1) : j \in cbs[l]
    IN  [callbacks |-> [cbs EXCEPT ![l] = @ \cup {n}],
         cb_handle |-> [event_loop |-> l, n |-> n]]

\* Drop of an Option<CallbackHandle>.
CallbackHandle_drop(cbs, cb_handle) ==
    IF cb_handle = None THEN cbs
    ELSE [cbs EXCEPT ![Unwrap(cb_handle).event_loop] = @ \ {Unwrap(cb_handle).n}]

\* JSExecutor::new; the LocalPool is [pending, done]: the tasks spawned and
\* not completed, and those completed.
JSExecutor_new ==
    [executor   |-> [pending |-> 0, done |-> 0],
     event_loop |-> None,
     cb_handle  |-> None]

\* JSExecutor::schedule_running on w = [js, callbacks]: the callback is
\* registered first; assigning cb_handle drops the handle held before.
schedule_running(w, event_loop) ==
    LET added == EventLoop_add_callback(w.callbacks, event_loop)
    IN  [js        |-> [w.js EXCEPT !.cb_handle  = Some(added.cb_handle),
                                    !.event_loop = Some(event_loop)],
         callbacks |-> CallbackHandle_drop(added.callbacks, w.js.cb_handle)]

\* A stop_running that drops the callback handle and keeps the loop.
m_stop_running_keeps_loop(w) ==
    [js        |-> [w.js EXCEPT !.cb_handle = None],
     callbacks |-> CallbackHandle_drop(w.callbacks, w.js.cb_handle)]

\* JSExecutor::stop_running
stop_running(w) ==
    [js        |-> [w.js EXCEPT !.cb_handle = None, !.event_loop = None],
     callbacks |-> CallbackHandle_drop(w.callbacks, w.js.cb_handle)]

\* JSExecutor::new_running, where cbs are the callbacks of the loops so far.
new_running(cbs, event_loop) ==
    schedule_running([js |-> JSExecutor_new, callbacks |-> cbs], event_loop)

\* The callback of runner_callback is called: run_until_stalled completes
\* `completed` of the pending tasks, the others are stalled.
runner_callback(executor, completed) ==
    [executor EXCEPT !.pending = @ - completed, !.done = @ + completed]

\* spawn_local_obj
spawn_local_obj(executor) == [executor EXCEPT !.pending = @ + 1]

\* A JSExecutor has been created by new.
JsInit ==
    /\ js = JSExecutor_new
    /\ callbacks = NoCallbacks
    /\ jsOp = "new"

-----------------------------------------------------------------------------
(* Inputs. *)

Txt_PM   == <<"P", ".", "M">>
Txt_Bad  == <<"P", ".">>

\* Values of SuggestionEntryId.
EntryIds == {1, 2}
\* Values of SuggestionsDatabaseVersion.
Versions == {1, 2}

AtomEntry ==
    [shape |-> "SuggestionEntryAtom", name |-> <<"A">>, module |-> Txt_PM,
     arguments |-> <<>>, return_type |-> <<"T">>, documentation |-> None]
MethodEntry ==
    [shape |-> "SuggestionEntryMethod", name |-> <<"m">>, module |-> Txt_PM,
     arguments |-> <<"this">>, self_type |-> <<"M">>, return_type |-> <<"T">>,
     documentation |-> Some(<<"d">>)]
MalformedEntry ==
    [shape |-> "SuggestionEntryFunction", name |-> <<"f">>, module |-> Txt_Bad,
     arguments |-> <<"x">>, return_type |-> <<"T">>, scope |-> "scope"]

SuggestionEntries == {AtomEntry, MethodEntry, MalformedEntry}

UpdatesOn(ids) ==
    {[type |-> "Add", id |-> id, entry |-> e] : id \in ids, e \in SuggestionEntries}
    \cup {[type |-> "Remove", id |-> id] : id \in ids}

Events ==
    {[updates |-> u, current_version |-> v] :
        u \in SeqUpTo(UpdatesOn(EntryIds), MaxUpdates), v \in Versions}

\* The updates of an event are on pairwise distinct ids.
DistinctIds(updates) ==
    \A i, j \in 1..Len(updates) : updates[i].id = updates[j].id => i = j

\* Values of SuggestionEntryId where events touch each id at most once.
WideIds == {1, 2, 3}

DistinctEvents ==
    {[updates |-> u, current_version |-> v] :
        u \in {w \in SeqUpTo(UpdatesOn(WideIds), MaxUpdates) : DistinctIds(w)},
        v \in Versions}

Responses(ids) ==
    {[entries |-> s, current_version |-> v] :
        s \in SeqUpTo({[id |-> id, suggestion |-> e] :
                          id \in ids, e \in SuggestionEntries}, MaxSnapshot),
        v \in Versions}

-----------------------------------------------------------------------------
(* History of Remove updates, kept beside the store. *)

IsAdd(u) == u.type = "Add"
IsRemove(u) == u.type = "Remove"
Normalizes(u) == IsAdd(u) /\ from_ls_entry(u.entry).ok
Malformed(u) == IsAdd(u) /\ ~from_ls_entry(u.entry).ok

\* Ids whose last Remove is followed by no Add (anyAdd) or by no Add that
\* normalizes (~anyAdd).
RECURSIVE RemovedAfter(_, _, _)
RemovedAfter(set, updates, anyAdd) ==
    IF updates = <<>> THEN set
    ELSE LET u == Head(updates)
             revives == IF anyAdd THEN IsAdd(u) ELSE Normalizes(u)
         IN  RemovedAfter(IF IsRemove(u) THEN set \cup {u.id}
                          ELSE IF revives THEN set \ {u.id}
                          ELSE set,
                          Tail(updates), anyAdd)

\* The elements of `seq` that satisfy Keep, in order; Keep is told apart by
\* `records`: the records of a response, or the updates of an event.
RECURSIVE Kept(_, _)
Kept(seq, records) ==
    IF seq = <<>> THEN <<>>
    ELSE LET x == Head(seq)
             keep == IF records THEN from_ls_entry(x.suggestion).ok
                     ELSE ~Malformed(x)
         IN  (IF keep THEN <<x>> ELSE <<>>) \o Kept(Tail(seq), records)

\* `response` without the records that fail to normalize.
CleanResponse(response) ==
    [entries |-> Kept(response.entries, TRUE),
     current_version |-> response.current_version]

\* `event` without the Adds that fail to normalize.
CleanEvent(event) ==
    [updates |-> Kept(event.updates, FALSE),
     current_version |-> event.current_version]

-----------------------------------------------------------------------------
(* The state machine.                                                      *)
(*                                                                         *)
(* The caller of the store is part of the state: after a constructor or an *)
(* apply_update_event call returns it still holds what it passed in and    *)
(* what the store was before the call (lastOp, prevEntries, prevVersion),  *)
(* and it lets go of them (Continue) before its next call.                 *)

NoOp == [op |-> "none", updates |-> <<>>, current_version |-> 0, ret |-> "()"]

\* No store has been constructed.
StoreInit ==
    /\ pc = "idle"
    /\ fetched = "none"
    /\ exists = FALSE
    /\ entries = EmptyMap
    /\ version = 0
    /\ lastOp = NoOp
    /\ prevEntries = EmptyMap
    /\ prevVersion = 0
    /\ removed = {}
    /\ removedNoAdd = {}
    /\ lastApplied = 0
    /\ cleanEntries = EmptyMap
    /\ cleanVersion = 0

\* The reader has called nothing, and no call is in progress.
NoRet == [op |-> "none"]

\* No memory is in use.
RcInit ==
    /\ mem = [rcs |-> NoRcs, entries |-> EmptyMap, version |-> 0, borrow |-> 0,
              panic |-> FALSE]
    /\ call = NoCall
    /\ handle = None
    /\ ret = NoRet
    /\ whole = [entries |-> EmptyMap, version |-> 0]

Init ==
    /\ StoreInit
    /\ RcInit
    /\ JsInit
    /\ raw = None
    /\ normalized = None
    /\ code = None

\* The store is built from `response`.
Construct(db, response) ==
    /\ exists' = TRUE
    /\ entries' = db.entries
    /\ version' = db.version
    /\ lastOp' = [op |-> "snapshot", updates |-> response.entries,
                  current_version |-> response.current_version, ret |-> "()"]
    /\ prevEntries' = entries
    /\ prevVersion' = version
    /\ lastApplied' = response.current_version
    /\ LET clean == from_ls_response(CleanResponse(response))
       IN  cleanEntries' = clean.entries /\ cleanVersion' = clean.version
    /\ UNCHANGED <<removed, removedNoAdd>>

\* create_synchronized is called and suspends at the request.
CreateSynchronized ==
    /\ UNCHANGED <<entryVars, rcVars, jsVars>>
    /\ pc = "idle" /\ ~exists
    /\ pc' = "awaiting"
    /\ UNCHANGED <<fetched, exists, entries, version, lastOp, prevEntries,
                   prevVersion, removed, removedNoAdd, lastApplied,
                                      cleanEntries, cleanVersion>>

\* The request completes with one of `responses`; create_synchronized resumes.
FetchOk(responses) ==
    /\ UNCHANGED <<entryVars, rcVars, jsVars>>
    /\ pc = "awaiting"
    /\ \E response \in responses :
          LET result == create_synchronized(Ok(response))
          IN  /\ fetched' = "ok"
              /\ IF result.ok
                 THEN pc' = "ok" /\ Construct(Unwrap(result.val), response)
                 ELSE /\ pc' = "err"
                      /\ UNCHANGED <<exists, entries, version, lastOp, prevEntries,
                                     prevVersion, removed, removedNoAdd, lastApplied,
                                      cleanEntries, cleanVersion>>

\* The request fails; create_synchronized resumes and `?` returns the error.
FetchErr ==
    /\ UNCHANGED <<entryVars, rcVars, jsVars>>
    /\ pc = "awaiting"
    /\ LET result == create_synchronized(Err)
       IN  /\ fetched' = "err"
           /\ IF result.ok
              THEN pc' = "ok" /\ Construct(Unwrap(result.val),
                                           [entries |-> <<>>, current_version |-> 0])
              ELSE /\ pc' = "err"
                   /\ UNCHANGED <<exists, entries, version, lastOp, prevEntries,
                                  prevVersion, removed, removedNoAdd, lastApplied,
                                      cleanEntries, cleanVersion>>

\* The future is dropped while it awaits the response.
Cancel ==
    /\ UNCHANGED <<entryVars, rcVars, jsVars>>
    /\ pc = "awaiting"
    /\ pc' = "cancelled"
    /\ UNCHANGED <<fetched, exists, entries, version, lastOp, prevEntries,
                   prevVersion, removed, removedNoAdd, lastApplied,
                                      cleanEntries, cleanVersion>>

\* SuggestionDatabase::from(response), the synchronous constructor.
FromLsResponse(responses) ==
    /\ UNCHANGED <<entryVars, rcVars, jsVars>>
    /\ pc = "idle" /\ ~exists
    /\ \E response \in responses : Construct(from_ls_response(response), response)
    /\ UNCHANGED <<pc, fetched>>

\* apply_update_event(event) for one of `events`.
ApplyUpdateEvent(events) ==
    /\ UNCHANGED <<entryVars, rcVars, jsVars>>
    /\ exists
    /\ lastOp = NoOp
    /\ \E event \in events :
          LET db == apply_update_event([entries |-> entries, version |-> version],
                                       event)
          IN  /\ entries' = db.entries
              /\ version' = db.version
              /\ lastOp' = [op |-> "event", updates |-> event.updates,
                            current_version |-> event.current_version,
                            ret |-> db.ret]
              /\ prevEntries' = entries
              /\ prevVersion' = version
              /\ removed' = RemovedAfter(removed, event.updates, FALSE)
              /\ removedNoAdd' = RemovedAfter(removedNoAdd, event.updates, TRUE)
              /\ lastApplied' = event.current_version
              /\ LET clean == apply_update_event([entries |-> cleanEntries,
                                                 version |-> cleanVersion],
                                                CleanEvent(event))
                 IN  cleanEntries' = clean.entries /\ cleanVersion' = clean.version
    /\ UNCHANGED <<pc, fetched, exists>>

\* The caller goes on: it drops the input and the observations of its last call.
Continue ==
    /\ UNCHANGED <<entryVars, rcVars, jsVars>>
    /\ lastOp # NoOp
    /\ lastOp' = NoOp
    /\ prevEntries' = EmptyMap
    /\ prevVersion' = 0
    /\ UNCHANGED <<pc, fetched, exists, entries, version, removed, removedNoAdd,
                   lastApplied, cleanEntries, cleanVersion>>

Next ==
    \/ CreateSynchronized
    \/ FetchOk(Responses(EntryIds))
    \/ FetchErr
    \/ Cancel
    \/ FromLsResponse(Responses(EntryIds))
    \/ ApplyUpdateEvent(Events)
    \/ Continue

Spec == Init /\ [][Next]_vars

\* The same program fed with events whose updates are on pairwise distinct
\* ids, over three ids.
NextDistinct ==
    \/ CreateSynchronized
    \/ FetchOk(Responses(WideIds))
    \/ FetchErr
    \/ Cancel
    \/ FromLsResponse(Responses(WideIds))
    \/ ApplyUpdateEvent(DistinctEvents)
    \/ Continue

SpecDistinct == Init /\ [][NextDistinct]_vars

\* One event applied to a store that from_ls_response has built, once its
\* caller has gone on.
InitBatch ==
    /\ pc = "idle"
    /\ fetched = "none"
    /\ exists = TRUE
    /\ \E response \in Responses(EntryIds) :
          /\ entries = from_ls_response(response).entries
          /\ version = from_ls_response(response).version
          /\ lastApplied = response.current_version
          /\ cleanEntries = from_ls_response(CleanResponse(response)).entries
          /\ cleanVersion = from_ls_response(CleanResponse(response)).version
    /\ lastOp = NoOp
    /\ prevEntries = EmptyMap
    /\ prevVersion = 0
    /\ removed = {}
    /\ removedNoAdd = {}
    /\ RcInit
    /\ JsInit
    /\ raw = None
    /\ normalized = None
    /\ code = None

NextBatch == ApplyUpdateEvent(Events)

SpecBatch == InitBatch /\ [][NextBatch]_vars

-----------------------------------------------------------------------------
(* Entry::from_ls_entry and Entry::code_to_insert on the entries the       *)
(* Language Server can send: the four shapes, with module paths that parse *)
(* and module paths that do not.  The entry also goes into a store, by a   *)
(* response and by an event.                                               *)

ModuleTexts ==
    {<<"P", ".", "M">>, <<"P", ".", "N">>, <<"P", ".", "M", ".", "N">>,
     <<"P">>, <<>>, <<"P", ".">>, <<".", "M">>, <<"P", ".", ".", "M">>}
Names == {<<"f">>, <<"M">>}
SelfTypes == {<<"M">>, <<"N">>, <<"P">>}
Documentations == {None, Some(<<"d">>)}
ArgumentLists == {<<>>, <<"x">>}

WireEntries ==
    {[shape |-> "SuggestionEntryAtom", name |-> n, module |-> m,
      arguments |-> a, return_type |-> <<"T">>, documentation |-> d] :
        n \in Names, m \in ModuleTexts, a \in ArgumentLists, d \in Documentations}
    \cup
    {[shape |-> "SuggestionEntryMethod", name |-> n.name, module |-> m,
      arguments |-> a, self_type |-> n.self_type, return_type |-> <<"T">>,
      documentation |-> d] :
        n \in [name : Names, self_type : SelfTypes], m \in ModuleTexts,
        a \in ArgumentLists, d \in Documentations}
    \cup
    {[shape |-> "SuggestionEntryFunction", name |-> n, module |-> m,
      arguments |-> a, return_type |-> <<"T">>, scope |-> "scope"] :
        n \in Names, m \in ModuleTexts, a \in ArgumentLists}
    \cup
    {[shape |-> "SuggestionEntryLocal", name |-> n, module |-> m,
      return_type |-> <<"T">>, scope |-> "scope"] :
        n \in Names, m \in ModuleTexts}

\* The response and the events that carry the entry r.
ResponsesOf(r) ==
    {[entries |-> <<[id |-> 1, suggestion |-> r]>>, current_version |-> 1]}
EventsOf(r) ==
    {[updates |-> <<[type |-> "Add", id |-> 1, entry |-> r]>>,
      current_version |-> 1],
     [updates |-> <<[type |-> "Add", id |-> 2, entry |-> MethodEntry],
                    [type |-> "Add", id |-> 1, entry |-> r]>>,
      current_version |-> 2]}

InitEntry ==
    /\ StoreInit
    /\ RcInit
    /\ JsInit
    /\ raw \in WireEntries
    /\ normalized = None
    /\ code = None

\* Entry::from_ls_entry(raw) is called.
FromLsEntry ==
    /\ raw # None
    /\ normalized = None
    /\ normalized' = Some(from_ls_entry(raw))
    /\ UNCHANGED <<raw, code>>
    /\ UNCHANGED <<storeVars, rcVars, jsVars>>

\* code_to_insert is called on the entry from_ls_entry returned.
CodeToInsert ==
    /\ normalized # None
    /\ Unwrap(normalized).ok
    /\ code = None
    /\ code' = Some(code_to_insert(Unwrap(Unwrap(normalized).val)))
    /\ UNCHANGED <<raw, normalized>>
    /\ UNCHANGED <<storeVars, rcVars, jsVars>>

NextEntry ==
    \/ FromLsEntry
    \/ CodeToInsert
    \/ FromLsResponse(ResponsesOf(raw))
    \/ ApplyUpdateEvent(EventsOf(raw))
    \/ Continue

SpecEntry == InitEntry /\ [][NextEntry]_vars

-----------------------------------------------------------------------------
(* The store update by update, with a reader on the same executor.  The    *)
(* writer's apply_update_event goes through its loop one update at a time  *)
(* and then sets the version; the reader calls get, keeps or drops the Rc  *)
(* it got, calls code_to_insert on it, and reads the whole store.  The     *)
(* reader runs only where the writer's call hands control back.            *)

CallEvents ==
    {[updates |-> u, current_version |-> v] :
        u \in SeqUpTo(UpdatesOn(EntryIds), MaxCallUpdates), v \in Versions}

\* The store has been built by from_ls_response.
InitRc ==
    /\ StoreInit
    /\ raw = None /\ normalized = None /\ code = None
    /\ \E response \in Responses(EntryIds) :
          /\ mem = from_ls_response_rc(response)
          /\ whole = from_ls_response(response)
    /\ call = NoCall
    /\ handle = None
    /\ ret = NoRet
    /\ JsInit

ReaderMayRun == call.at = "idle" \/ apply_update_event_yields(call.at)

\* apply_update_event(event) is called for one of `events`.
EnterApplyUpdateEvent(events) ==
    /\ call.at = "idle"
    /\ ret = NoRet
    /\ \E event \in events :
          /\ call' = enter_apply_update_event(mem, event)
          /\ whole' = LET db == apply_update_event(whole, event)
                      IN  [entries |-> db.entries, version |-> db.version]
    /\ UNCHANGED <<mem, handle, ret>>
    /\ UNCHANGED <<storeVars, entryVars, jsVars>>

\* The loop takes the next update.
LoopApplyUpdateEvent ==
    /\ call.at = "loop"
    /\ call.updates # <<>>
    /\ LET next == loop_apply_update_event(mem, call)
       IN  mem' = next.mem /\ call' = next.call
    /\ UNCHANGED <<handle, ret, whole>>
    /\ UNCHANGED <<storeVars, entryVars, jsVars>>

\* The loop is over: the version is set.
SetVersion ==
    /\ call.at = "loop"
    /\ call.updates = <<>>
    /\ LET next == set_version(mem, call)
       IN  mem' = next.mem /\ call' = next.call
    /\ UNCHANGED <<handle, ret, whole>>
    /\ UNCHANGED <<storeVars, entryVars, jsVars>>

\* apply_update_event returns.
ReturnApplyUpdateEvent ==
    /\ call.at = "done"
    /\ call' = NoCall
    /\ UNCHANGED <<mem, handle, ret, whole>>
    /\ UNCHANGED <<storeVars, entryVars, jsVars>>

\* The reader calls get(id).  With `keep` it stores the returned Option in
\* its handle, whose former Rc is dropped; without, the returned Rc is a
\* temporary, dropped at the end of the statement.
Get(id, keep) ==
    /\ ReaderMayRun
    /\ ret = NoRet
    /\ LET got    == get_rc(mem, id)
           result == IF got.ret = None THEN None
                     ELSE Some(Rc_deref(got.mem.rcs, Unwrap(got.ret)))
       IN  /\ ret' = [op |-> "get", id |-> id, result |-> result,
                      whole |-> whole]
           /\ IF keep
              THEN /\ handle' = IF got.ret = None THEN None
                                ELSE Some([id    |-> id,
                                           addr  |-> Unwrap(got.ret),
                                           value |-> Unwrap(result)])
                   /\ mem' = IF handle = None THEN got.mem
                             ELSE [got.mem EXCEPT
                                      !.rcs = Rc_drop(@, Unwrap(handle).addr)]
              ELSE /\ handle' = handle
                   /\ mem' = IF got.ret = None THEN got.mem
                             ELSE [got.mem EXCEPT
                                      !.rcs = Rc_drop(@, Unwrap(got.ret))]
    /\ UNCHANGED <<call, whole>>
    /\ UNCHANGED <<storeVars, entryVars, jsVars>>

\* The reader drops the Rc it keeps.
DropHandle ==
    /\ ReaderMayRun
    /\ ret = NoRet
    /\ handle # None
    /\ handle' = None
    /\ mem' = [mem EXCEPT !.rcs = Rc_drop(@, Unwrap(handle).addr)]
    /\ UNCHANGED <<call, ret, whole>>
    /\ UNCHANGED <<storeVars, entryVars, jsVars>>

\* The reader calls code_to_insert on the entry of the Rc it keeps.
HandleCodeToInsert ==
    /\ ReaderMayRun
    /\ ret = NoRet
    /\ handle # None
    /\ ret' = [op   |-> "code_to_insert",
               code |-> code_to_insert(Rc_deref(mem.rcs, Unwrap(handle).addr))]
    /\ UNCHANGED <<mem, call, handle, whole>>
    /\ UNCHANGED <<storeVars, entryVars, jsVars>>

\* The reader reads the store: get of every id, and the version.
Observe ==
    /\ ReaderMayRun
    /\ ret = NoRet
    /\ ret' = [op    |-> "observe",
               seen  |-> [entries |-> EntriesOf(mem), version |-> mem.version],
               whole |-> whole]
    /\ UNCHANGED <<mem, call, handle, whole>>
    /\ UNCHANGED <<storeVars, entryVars, jsVars>>

\* The reader goes on: it drops what its last call returned.
ReaderContinue ==
    /\ ret # NoRet
    /\ ret' = NoRet
    /\ UNCHANGED <<mem, call, handle, whole>>
    /\ UNCHANGED <<storeVars, entryVars, jsVars>>

NextRc ==
    \/ EnterApplyUpdateEvent(CallEvents)
    \/ LoopApplyUpdateEvent
    \/ SetVersion
    \/ ReturnApplyUpdateEvent
    \/ \E id \in EntryIds, keep \in BOOLEAN : Get(id, keep)
    \/ DropHandle
    \/ HandleCodeToInsert
    \/ Observe
    \/ ReaderContinue

SpecRc == InitRc /\ [][NextRc]_vars

-----------------------------------------------------------------------------
(* The calls on a JSExecutor, and the frames of the event loops. *)

\* executor = JSExecutor::new(): the executor held before is dropped.
New ==
    /\ js' = JSExecutor_new
    /\ callbacks' = CallbackHandle_drop(callbacks, js.cb_handle)
    /\ jsOp' = "new"
    /\ UNCHANGED <<storeVars, entryVars, rcVars>>

\* executor = JSExecutor::new_running(): the executor held before is dropped.
NewRunning ==
    /\ \E event_loop \in Loops :
          LET w == new_running(CallbackHandle_drop(callbacks, js.cb_handle),
                               event_loop)
          IN  js' = w.js /\ callbacks' = w.callbacks
    /\ jsOp' = "new_running"
    /\ UNCHANGED <<storeVars, entryVars, rcVars>>

ScheduleRunning ==
    /\ \E event_loop \in Loops :
          LET w == schedule_running([js |-> js, callbacks |-> callbacks],
                                    event_loop)
          IN  js' = w.js /\ callbacks' = w.callbacks
    /\ jsOp' = "schedule_running"
    /\ UNCHANGED <<storeVars, entryVars, rcVars>>

StopRunning ==
    /\ LET w == stop_running([js |-> js, callbacks |-> callbacks])
       IN  js' = w.js /\ callbacks' = w.callbacks
    /\ jsOp' = "stop_running"
    /\ UNCHANGED <<storeVars, entryVars, rcVars>>

\* A task is spawned on the executor.
SpawnLocalObj ==
    /\ js.executor.pending + js.executor.done < MaxTasks
    /\ js' = [js EXCEPT !.executor = spawn_local_obj(@)]
    /\ jsOp' = "spawn_local_obj"
    /\ UNCHANGED callbacks
    /\ UNCHANGED <<storeVars, entryVars, rcVars>>

\* An animation frame of a loop that has a callback, with tasks pending.
Frame ==
    /\ \E l \in Loops : callbacks[l] # {}
    /\ js.executor.pending > 0
    /\ \E completed \in 0..js.executor.pending :
          js' = [js EXCEPT !.executor = runner_callback(@, completed)]
    /\ jsOp' = "frame"
    /\ UNCHANGED callbacks
    /\ UNCHANGED <<storeVars, entryVars, rcVars>>

NextJs ==
    \/ New
    \/ NewRunning
    \/ ScheduleRunning
    \/ StopRunning
    \/ SpawnLocalObj
    \/ Frame

SpecJs == Init /\ [][NextJs]_vars

-----------------------------------------------------------------------------
(* Vocabulary of the properties. *)

AfterSnapshot == lastOp.op = "snapshot"
AfterEvent == lastOp.op = "event"

\* normalize of the specification is Entry::from_ls_entry.
normalize(e) == Unwrap(from_ls_entry(e).val)

AllIds == EntryIds \cup WideIds

\* An update that changes the map when it is reached: a Remove, or an Add
\* whose entry normalizes.
Effective(u) == IsRemove(u) \/ Normalizes(u)

\* Index of the last update of `updates` on `id` satisfying the test encoded
\* by `which` ("effective", "normalizes"); 0 when there is none.
LastIndex(updates, id, which) ==
    LET S == {i \in 1..Len(updates) :
                 /\ updates[i].id = id
                 /\ IF which = "effective" THEN Effective(updates[i])
                    ELSE Normalizes(updates[i])}
    IN  IF S = {} THEN 0 ELSE CHOOSE i \in S : \A j \in S : j <= i

\* What get(id) is to return after `updates` were applied to the map
\* `before`, read off the updates on `id` alone.
Expected(before, updates, id) ==
    LET i == LastIndex(updates, id, "effective")
    IN  IF i = 0 THEN lookup(before, id)
        ELSE IF IsRemove(updates[i]) THEN None
        ELSE Some(normalize(updates[i].entry))

\* `updates` without its i-th element.
Without(updates, i) ==
    SubSeq(updates, 1, i - 1) \o SubSeq(updates, i + 1, Len(updates))

-----------------------------------------------------------------------------
(* Properties. *)

\* C1: the store built by from_ls_response from a response has the version
\* of the response, however many entries of the response fail to normalize.
C1_SnapshotVersion ==
    AfterSnapshot => exists /\ version = lastOp.current_version

\* C1 witness: a store built from a response all of whose entries (there
\* are at least two) fail to normalize.
C1_Witness ==
    /\ AfterSnapshot
    /\ Len(lastOp.updates) >= 2
    /\ \A i \in 1..Len(lastOp.updates) :
          ~from_ls_entry(lastOp.updates[i].suggestion).ok
    /\ version = lastOp.current_version
    /\ version # prevVersion

\* C2 as stated: after an event holding an Add{id, e} whose e normalizes,
\* get(id) is normalize(e).
C2_Original ==
    AfterEvent =>
        \A i \in 1..Len(lastOp.updates) :
            Normalizes(lastOp.updates[i]) =>
                get(lastOp.updates[i].id) = Some(normalize(lastOp.updates[i].entry))

\* C2 amended: after an event holding an Add{id, e} whose e normalizes and
\* that no later update of the event on the same id overrides (a Remove{id},
\* or an Add{id, e2} whose e2 normalizes), get(id) is normalize(e).
C2_AddThenGet ==
    AfterEvent =>
        \A i \in 1..Len(lastOp.updates) :
            (/\ Normalizes(lastOp.updates[i])
             /\ \A j \in (i + 1)..Len(lastOp.updates) :
                   lastOp.updates[j].id = lastOp.updates[i].id
                       => ~Effective(lastOp.updates[j]))
            => get(lastOp.updates[i].id) = Some(normalize(lastOp.updates[i].entry))

\* C2 witness: an Add that normalizes replaced a different entry, and the
\* same event went on with an Add on the same id that was dropped.
C2_Witness ==
    /\ AfterEvent
    /\ Len(lastOp.updates) >= 2
    /\ Normalizes(lastOp.updates[1])
    /\ Malformed(lastOp.updates[2])
    /\ lastOp.updates[2].id = lastOp.updates[1].id
    /\ lastOp.updates[1].id \in DOMAIN prevEntries
    /\ prevEntries[lastOp.updates[1].id] # normalize(lastOp.updates[1].entry)
    /\ get(lastOp.updates[1].id) = Some(normalize(lastOp.updates[1].entry))

\* C3: an id that an event removed, with no Add for it later in that event
\* or in a later event, is absent; and an Add that failed to normalize does
\* not bring it back either.
C3_RemovedStaysNone ==
    exists =>
        /\ \A id \in removedNoAdd : get(id) = None
        /\ \A id \in removed : get(id) = None

\* C3 witness: an id was removed by an earlier event, and the last event
\* carried for it only an Add that was dropped; another id is removed too.
C3_Witness ==
    /\ AfterEvent
    /\ \E id \in removed \ removedNoAdd :
          /\ \E i \in 1..Len(lastOp.updates) :
                lastOp.updates[i].id = id /\ Malformed(lastOp.updates[i])
          /\ \A i \in 1..Len(lastOp.updates) :
                lastOp.updates[i].id = id => ~IsRemove(lastOp.updates[i])
          /\ get(id) = None
    /\ removedNoAdd # {}

\* C4: the version of the store is the current_version of the snapshot or
\* event applied last, whatever the updates of the events were.
C4_VersionIsLastApplied ==
    exists => version = lastApplied

\* C4 witness: after an earlier event (which removed an id), an event with
\* nothing but dropped Adds changed the version.
C4_Witness ==
    /\ AfterEvent
    /\ Len(lastOp.updates) >= 1
    /\ \A i \in 1..Len(lastOp.updates) : Malformed(lastOp.updates[i])
    /\ removed # {}
    /\ version = lastOp.current_version
    /\ version # prevVersion

\* C5: in an event whose updates are on pairwise distinct ids, every Add
\* that normalizes is visible through get, every Remove has taken effect,
\* and the id of every Add that fails to normalize maps to what it mapped to
\* before the event: the updates before and after a dropped Add are applied.
C5_PartialFailureIsolation ==
    (AfterEvent /\ DistinctIds(lastOp.updates)) =>
        \A i \in 1..Len(lastOp.updates) :
            LET u == lastOp.updates[i]
            IN  /\ Normalizes(u) => get(u.id) = Some(normalize(u.entry))
                /\ IsRemove(u) => get(u.id) = None
                /\ Malformed(u) => get(u.id) = lookup(prevEntries, u.id)

\* C5 witness: the event [Add valid, Add malformed, Remove] on three ids,
\* where the second and the third id were present before the event.
C5_Witness ==
    /\ AfterEvent
    /\ Len(lastOp.updates) = 3
    /\ DistinctIds(lastOp.updates)
    /\ Normalizes(lastOp.updates[1])
    /\ Malformed(lastOp.updates[2])
    /\ IsRemove(lastOp.updates[3])
    /\ lastOp.updates[1].id \notin DOMAIN prevEntries
    /\ lastOp.updates[2].id \in DOMAIN prevEntries
    /\ lastOp.updates[3].id \in DOMAIN prevEntries
    /\ get(lastOp.updates[1].id) = Some(normalize(lastOp.updates[1].entry))
    /\ get(lastOp.updates[2].id) = Some(prevEntries[lastOp.updates[2].id])
    /\ get(lastOp.updates[3].id) = None

\* C6 as stated: after an event holding Adds for id that normalize, get(id)
\* is the normalization of the last of them, wherever the Remove{id} updates
\* of the event stand.
C6_Original ==
    AfterEvent =>
        \A id \in AllIds :
            LET i == LastIndex(lastOp.updates, id, "normalizes")
            IN  i # 0 => get(id) = Some(normalize(lastOp.updates[i].entry))

\* C6 amended: after an event holding Adds for id that normalize, get(id) is
\* the normalization of the last of them, replacing whatever id mapped to
\* before, wherever the Remove{id} updates before that Add stand; a
\* Remove{id} after it leaves id absent.
C6_LastAddWins ==
    AfterEvent =>
        \A id \in AllIds :
            LET i == LastIndex(lastOp.updates, id, "normalizes")
                removedLater == \E j \in (i + 1)..Len(lastOp.updates) :
                                    /\ lastOp.updates[j].id = id
                                    /\ IsRemove(lastOp.updates[j])
            IN  i # 0 => get(id) = IF removedLater THEN None
                                   ELSE Some(normalize(lastOp.updates[i].entry))

\* C6 witness: the event [Remove{id}, Add{id, e1}, Add{id, e2}], e1 and e2
\* normalizing to different entries, on an id that held e1 before.
C6_Witness ==
    /\ AfterEvent
    /\ Len(lastOp.updates) = 3
    /\ IsRemove(lastOp.updates[1])
    /\ Normalizes(lastOp.updates[2])
    /\ Normalizes(lastOp.updates[3])
    /\ lastOp.updates[2].id = lastOp.updates[1].id
    /\ lastOp.updates[3].id = lastOp.updates[1].id
    /\ lastOp.updates[2].entry # lastOp.updates[3].entry
    /\ lookup(prevEntries, lastOp.updates[1].id)
           = Some(normalize(lastOp.updates[2].entry))
    /\ get(lastOp.updates[1].id) = Some(normalize(lastOp.updates[3].entry))

\* The i-th update of the last event is a Remove of an id that is absent
\* when the update is reached.
RemovesAbsent(i) ==
    /\ IsRemove(lastOp.updates[i])
    /\ lastOp.updates[i].id \notin DOMAIN prevEntries
    /\ \A j \in 1..(i - 1) : lastOp.updates[j].id # lastOp.updates[i].id

\* C7: a Remove of an id that is absent changes the mapping of no id: the
\* store is as if the event had come without it, with the other updates
\* applied and the version of the event set, and the call returns normally.
C7_RemoveAbsentIsNoOp ==
    AfterEvent =>
        \A i \in 1..Len(lastOp.updates) :
            RemovesAbsent(i) =>
                /\ \A id \in AllIds :
                      get(id) = Expected(prevEntries, Without(lastOp.updates, i), id)
                /\ version = lastOp.current_version
                /\ lastOp.ret = "()"

\* C7 witness: an event that starts with the Remove of an absent id and goes
\* on with an Add on another id; the Add is in the store, the version is the
\* event's, and no other id changed.
C7_Witness ==
    /\ AfterEvent
    /\ Len(lastOp.updates) = 2
    /\ RemovesAbsent(1)
    /\ Normalizes(lastOp.updates[2])
    /\ lastOp.updates[2].id # lastOp.updates[1].id
    /\ lookup(prevEntries, lastOp.updates[2].id)
           # Some(normalize(lastOp.updates[2].entry))
    /\ get(lastOp.updates[2].id) = Some(normalize(lastOp.updates[2].entry))
    /\ get(lastOp.updates[1].id) = None
    /\ version = lastOp.current_version
    /\ version # prevVersion

\* C8: an event whose current_version is lower than or equal to the version
\* of the store is applied like any other: its updates take effect and the
\* version becomes the event's.
C8_VersionAdoptedVerbatim ==
    (AfterEvent /\ lastOp.current_version <= prevVersion) =>
        /\ version = lastOp.current_version
        /\ \A id \in AllIds : get(id) = Expected(prevEntries, lastOp.updates, id)

\* C8 witness: an event lowered the version and changed the entries.
C8_Witness ==
    /\ AfterEvent
    /\ version < prevVersion
    /\ version = lastOp.current_version
    /\ entries # prevEntries

\* C9: apply_update_event returns normally for every event, with every
\* update of the event processed (each id maps to what its updates make of
\* it), the version of the event set and the store in place.
C9_ApplyNeverFails ==
    AfterEvent =>
        /\ lastOp.ret = "()"
        /\ exists
        /\ version = lastOp.current_version
        /\ \A id \in AllIds : get(id) = Expected(prevEntries, lastOp.updates, id)

\* C9 witness: an event that starts with an Add that fails to normalize and
\* goes on with an Add on another id and with the Remove of an absent id.
C9_Witness ==
    /\ AfterEvent
    /\ Len(lastOp.updates) = 3
    /\ Malformed(lastOp.updates[1])
    /\ Normalizes(lastOp.updates[2])
    /\ lastOp.updates[2].id # lastOp.updates[1].id
    /\ lastOp.updates[2].id \notin DOMAIN prevEntries
    /\ IsRemove(lastOp.updates[3])
    /\ lastOp.updates[3].id = lastOp.updates[1].id
    /\ lastOp.updates[3].id \notin DOMAIN prevEntries
    /\ get(lastOp.updates[2].id) = Some(normalize(lastOp.updates[2].entry))
    /\ lastOp.ret = "()"

\* C10: create_synchronized returns a store exactly when the request
\* succeeded, whatever the entries of the response are; when the request
\* fails it returns the error and there is no store; while it awaits the
\* response, and when it is dropped there, there is no store.
C10_BootstrapAllOrNothing ==
    /\ pc = "awaiting" => ~exists /\ fetched = "none"
    /\ pc = "cancelled" => ~exists /\ fetched = "none"
    /\ pc = "err" => ~exists /\ fetched = "err"
    /\ pc = "ok" => exists /\ fetched = "ok"
    /\ fetched = "ok" => exists /\ pc = "ok"
    /\ fetched = "err" => ~exists /\ pc = "err"
    /\ exists => pc \in {"ok", "idle"}

\* C10 witness: create_synchronized returned a store for a response all of
\* whose entries fail to normalize.
C10_Witness ==
    /\ pc = "ok"
    /\ exists
    /\ AfterSnapshot
    /\ Len(lastOp.updates) >= 1
    /\ \A i \in 1..Len(lastOp.updates) :
          ~from_ls_entry(lastOp.updates[i].suggestion).ok
    /\ entries = EmptyMap

\* Index of the last record of `records` (the entries of a response) on
\* `id` that normalizes; 0 when there is none.
LastRecord(records, id) ==
    LET S == {i \in 1..Len(records) :
                 records[i].id = id /\ from_ls_entry(records[i].suggestion).ok}
    IN  IF S = {} THEN 0 ELSE CHOOSE i \in S : \A j \in S : j <= i

\* C11: the store built by from_ls_response holds, for every id, the
\* normalization of the last record of the response on that id that
\* normalizes, and nothing for an id without such a record; the store built
\* from an empty response holds nothing.
C11_SnapshotKeepsNormalized ==
    AfterSnapshot =>
        \A id \in AllIds :
            LET i == LastRecord(lastOp.updates, id)
            IN  get(id) = IF i = 0 THEN None
                          ELSE Some(normalize(lastOp.updates[i].suggestion))

\* C11 witness: a response with two records on one id that normalize to
\* different entries; the store holds the second, and nothing else.
C11_Witness ==
    /\ AfterSnapshot
    /\ Len(lastOp.updates) = 2
    /\ lastOp.updates[1].id = lastOp.updates[2].id
    /\ from_ls_entry(lastOp.updates[1].suggestion).ok
    /\ from_ls_entry(lastOp.updates[2].suggestion).ok
    /\ lastOp.updates[1].suggestion # lastOp.updates[2].suggestion
    /\ get(lastOp.updates[1].id) = Some(normalize(lastOp.updates[2].suggestion))
    /\ DOMAIN entries = {lastOp.updates[1].id}

\* C12: the store is the one reached from the same response and events
\* with every record and every Add that fails to normalize taken out: both
\* hold the same entries for every id, and the same version.
C12_DropsUnobservable ==
    exists =>
        /\ \A id \in AllIds : get(id) = lookup(cleanEntries, id)
        /\ version = cleanVersion

\* C12 witness: an event with an Add that fails to normalize, on an id the
\* store holds, and with an Add that normalizes and changes the store.
C12_Witness ==
    /\ AfterEvent
    /\ \E i \in 1..Len(lastOp.updates) :
          /\ Malformed(lastOp.updates[i])
          /\ lastOp.updates[i].id \in DOMAIN prevEntries
          /\ lastOp.updates[i].id \in DOMAIN entries
    /\ \E i \in 1..Len(lastOp.updates) : Normalizes(lastOp.updates[i])
    /\ entries # prevEntries
    /\ entries = cleanEntries
    /\ version = cleanVersion

\* The entry from_ls_entry made of raw, when it made one.
HasEntry == normalized # None /\ Unwrap(normalized).ok
TheEntry == Unwrap(Unwrap(normalized).val)

\* The text after the last "." of `text`.
RECURSIVE AfterLastDot(_)
AfterLastDot(text) ==
    IF text = <<>> THEN <<>>
    ELSE IF text[Len(text)] = "." THEN <<>>
    ELSE Append(AfterLastDot(SubSeq(text, 1, Len(text) - 1)), text[Len(text)])

\* C15: code_to_insert returns "<last segment of the module>.<name>" when
\* the entry has a self type equal to the last segment of its module, and
\* the name alone in every other case; it returns for every entry.
C15_CodeToInsert ==
    /\ code # None =>
          LET last == AfterLastDot(raw.module)
          IN  Unwrap(code) =
                  IF TheEntry.self_type # None /\ Unwrap(TheEntry.self_type) = last
                  THEN last \o <<".">> \o TheEntry.name
                  ELSE TheEntry.name
    /\ (HasEntry /\ code = None) => ENABLED CodeToInsert

\* C15 witness: a method of module P.M.N with self type N; the code is N.f.
C15_Witness ==
    /\ code = Some(<<"N", ".", "f">>)
    /\ raw.shape = "SuggestionEntryMethod"
    /\ raw.module = <<"P", ".", "M", ".", "N">>
    /\ raw.self_type = <<"N">>
    /\ raw.name = <<"f">>

KindOfShape(shape) ==
    CASE shape = "SuggestionEntryAtom" -> "Atom"
      [] shape = "SuggestionEntryMethod" -> "Method"
      [] shape = "SuggestionEntryFunction" -> "Function"
      [] shape = "SuggestionEntryLocal" -> "Local"

\* C16: an entry made by from_ls_entry has the kind of its wire shape and
\* has a self type exactly when its kind is Method; so has every entry a
\* store holds.
C16_KindAndSelfType ==
    /\ HasEntry =>
          /\ TheEntry.kind = KindOfShape(raw.shape)
          /\ TheEntry.self_type # None <=> TheEntry.kind = "Method"
    /\ \A id \in DOMAIN entries :
          /\ entries[id].self_type # None <=> entries[id].kind = "Method"
          /\ id = 1 => entries[id].kind = KindOfShape(raw.shape)

\* C16 witness: a store that holds a Function without self type, sent by an
\* event, beside a Method with one.
C16_Witness ==
    /\ AfterEvent
    /\ HasEntry
    /\ raw.shape = "SuggestionEntryFunction"
    /\ DOMAIN entries = {1, 2}
    /\ entries[1].kind = "Function" /\ entries[1].self_type = None
    /\ entries[2].kind = "Method" /\ entries[2].self_type = Some(<<"M">>)

\* C17: from_ls_entry fails exactly when the module path of the raw entry
\* does not parse, whatever the shape; when it succeeds the name and the
\* return type are those of the raw entry, and a Local has no arguments.
C17_NormalizeFailsOnModuleOnly ==
    normalized # None =>
        /\ Unwrap(normalized).ok <=> QualifiedName_try_from(raw.module).ok
        /\ HasEntry =>
              /\ TheEntry.name = raw.name
              /\ TheEntry.return_type = raw.return_type
              /\ raw.shape = "SuggestionEntryLocal" => TheEntry.arguments = <<>>

\* C17 witness: a Function with arguments and the module path "P..M", which
\* from_ls_entry refused.
C17_Witness ==
    /\ normalized = Some(Err)
    /\ raw.shape = "SuggestionEntryFunction"
    /\ raw.module = <<"P", ".", ".", "M">>
    /\ raw.arguments # <<>>

\* The store of a memory, as the pair a reader can see.
SeenIn(m) == [entries |-> EntriesOf(m), version |-> m.version]

\* What get(id) returns in memory m, as a value.
GetIn(m, id) == lookup(EntriesOf(m), id)

\* C13: the Rc a reader keeps from a get stays a live allocation holding the
\* entry it held when get returned it, whatever Remove or replacing Add is
\* applied later; a get returns what the store holds for the id after all
\* events so far.
C13_HandleStaysValid ==
    /\ \A id \in DOMAIN mem.entries : mem.entries[id] \in DOMAIN mem.rcs
    /\ handle # None =>
          /\ Unwrap(handle).addr \in DOMAIN mem.rcs
          /\ mem.rcs[Unwrap(handle).addr].value = Unwrap(handle).value
    /\ ret.op = "get" => ret.result = lookup(ret.whole.entries, ret.id)

\* C13 witness: the reader keeps the Rc of the Atom it got for id 1, id 1 has
\* been removed since, and a later get(1) returned None.
C13_Witness ==
    /\ handle # None
    /\ Unwrap(handle).id = 1
    /\ Unwrap(handle).value = normalize(AtomEntry)
    /\ Rc_deref(mem.rcs, Unwrap(handle).addr) = normalize(AtomEntry)
    /\ 1 \notin DOMAIN mem.entries
    /\ ret.op = "get" /\ ret.id = 1 /\ ret.result = None

\* What an update can leave for its id: nothing after a Remove, the entry
\* made of the raw one after an Add.
PostOf(u) ==
    IF IsRemove(u) THEN {None}
    ELSE IF Normalizes(u) THEN {Some(normalize(u.entry))}
    ELSE {}

\* C14: across every step, what get(id) returns is what it returned before
\* the step, or what the update applied by the step leaves for id; there is
\* no state between the two.
C14_PerIdAtomicity ==
    [][\A id \in EntryIds :
          \/ GetIn(mem, id)' = GetIn(mem, id)
          \/ /\ call.at = "loop"
             /\ call.updates # <<>>
             /\ Head(call.updates).id = id
             /\ GetIn(mem, id)' \in PostOf(Head(call.updates))]_vars

\* C14 witness: the reader got the Atom for id 1, keeps it, and after a
\* replacing Add a get(1) returned the Method.
C14_Witness ==
    /\ handle # None
    /\ Unwrap(handle).id = 1
    /\ Unwrap(handle).value = normalize(AtomEntry)
    /\ ret.op = "get" /\ ret.id = 1
    /\ ret.result = Some(normalize(MethodEntry))

\* C18: while the loop of a call runs the version is the one found on entry
\* and has not been set; after the loop it has been set once, to the version
\* of the event.  Entering the call changes nothing, and setting the version
\* changes the version alone.
C18_VersionSetOnce ==
    /\ [](/\ call.at = "loop" =>
                mem.version = call.old_version /\ call.sets = 0
          /\ call.at = "done" =>
                /\ call.updates = <<>>
                /\ call.sets = 1
                /\ mem.version = call.current_version)
    /\ [][/\ (call.at = "idle" /\ call'.at # "idle") => mem' = mem
          /\ (call.at = "loop" /\ call.updates = <<>>) =>
                /\ mem'.rcs = mem.rcs
                /\ mem'.entries = mem.entries
                /\ mem'.version = call.current_version]_vars

\* C18 witness: two updates have been applied, the last one an Add that
\* went in, and the version is still the old one, which the event changes.
C18_Witness ==
    /\ call.at = "loop"
    /\ call.taken = 2
    /\ call.updates = <<>>
    /\ mem.version = call.old_version
    /\ call.old_version # call.current_version
    /\ EntriesOf(mem) = whole.entries
    /\ DOMAIN mem.entries = {1, 2}

\* C19: a get, for an id the map holds or not, and a code_to_insert leave
\* the map and the version as they are; so does every step of the reader.
C19_ReadsChangeNothing ==
    [][(\/ ret' # ret /\ ret'.op \in {"get", "code_to_insert"}
        \/ call' = call)
       => /\ mem'.entries = mem.entries
          /\ EntriesOf(mem)' = EntriesOf(mem)
          /\ mem'.version = mem.version]_vars

\* C19 witness: a get for an id that a non-empty map does not hold.
C19_Witness ==
    /\ ret.op = "get"
    /\ ret.result = None
    /\ ret.id \notin DOMAIN mem.entries
    /\ DOMAIN mem.entries # {}
    /\ handle = None

\* C20: what a reader sees when it reads the store is the store after all
\* the events begun so far, each applied as a whole, with the version of the
\* last one; between two calls the memory is that store.
C20_EventConsistentObservation ==
    /\ ret.op = "observe" => ret.seen = ret.whole
    /\ call.at = "idle" => SeenIn(mem) = whole

\* C20 witness: the reader kept the Atom of id 1, an event replaced it with
\* the Method, and the reader then read the store.
C20_Witness ==
    /\ ret.op = "observe"
    /\ handle # None
    /\ Unwrap(handle).id = 1
    /\ Unwrap(handle).value = normalize(AtomEntry)
    /\ 1 \in DOMAIN ret.seen.entries
    /\ ret.seen.entries[1] = normalize(MethodEntry)

\* The store as apply_update_event takes it.
StoreOf(db) == [entries |-> db.entries, version |-> db.version]

\* The stores that applying `updates` to db in consecutive events can leave,
\* in the same order, with any versions but that of the last event, v.
RECURSIVE SplitResults(_, _, _)
SplitResults(db, updates, v) ==
    {StoreOf(apply_update_event(db, [updates |-> updates, current_version |-> v]))}
    \cup UNION {SplitResults(
                    StoreOf(apply_update_event(
                        db, [updates         |-> SubSeq(updates, 1, k),
                             current_version |-> w])),
                    SubSeq(updates, k + 1, Len(updates)), v) :
                k \in 1..Len(updates), w \in Versions}

\* `updates` with those at i and i + 1 exchanged.
Swapped(updates, i) ==
    [k \in 1..Len(updates) |->
        IF k = i THEN updates[i + 1]
        ELSE IF k = i + 1 THEN updates[i]
        ELSE updates[k]]

\* C21: after an event, the store is the one every split of its updates
\* into consecutive events would have left, the last one carrying the
\* version of the event; and the one the event would have left with two
\* neighbouring updates on different ids exchanged.
C21_BatchingDoesNotMatter ==
    AfterEvent =>
        LET before == [entries |-> prevEntries, version |-> prevVersion]
            now    == [entries |-> entries, version |-> version]
        IN  /\ SplitResults(before, lastOp.updates, lastOp.current_version)
                   = {now}
            /\ \A i \in 1..(Len(lastOp.updates) - 1) :
                  lastOp.updates[i].id # lastOp.updates[i + 1].id =>
                      StoreOf(apply_update_event(
                          before,
                          [updates         |-> Swapped(lastOp.updates, i),
                           current_version |-> lastOp.current_version])) = now

\* C21 witness: an event of three updates, the first two on the same id,
\* where exchanging these two would have left other entries, and the third
\* on another id.
C21_Witness ==
    /\ AfterEvent
    /\ Len(lastOp.updates) = 3
    /\ lastOp.updates[1].id = lastOp.updates[2].id
    /\ lastOp.updates[3].id # lastOp.updates[2].id
    /\ Normalizes(lastOp.updates[3])
    /\ apply_updates(prevEntries, Swapped(lastOp.updates, 1)) # entries
    /\ lastOp.current_version # prevVersion

\* C23: the map is not borrowed between two steps -- between two updates
\* of an event, before the version is set, after get has returned -- and no
\* borrow or borrow_mut has found it borrowed, whatever Rc the reader keeps.
C23_NoConflictingBorrow ==
    /\ mem.borrow = 0
    /\ ~mem.panic

\* C23 witness: the reader keeps the Rc of the Atom it got for id 1, and an
\* event has since taken two mutable borrows, one of them to remove id 1.
C23_Witness ==
    /\ handle # None
    /\ Unwrap(handle).id = 1
    /\ Unwrap(handle).value = normalize(AtomEntry)
    /\ call.at = "loop"
    /\ call.taken = 2
    /\ 1 \notin DOMAIN mem.entries
    /\ 2 \in DOMAIN mem.entries
    /\ mem.borrow = 0

\* The callback handles that have not been dropped.
HeldHandles ==
    UNION {{[event_loop |-> l, n |-> n] : n \in callbacks[l]} : l \in Loops}

\* Some loop calls the executor on its frames.
Running == \E l \in Loops : callbacks[l] # {}

\* C22: the callback handle is held exactly when the event loop is, and is
\* then the only one not dropped, a callback of that loop; after new and
\* after stop_running both are absent and no loop calls the executor; a
\* stop_running with no loop assigned changes nothing; a schedule_running
\* on a running executor stores a new handle and drops the one held before.
C22_ExecutorLifecycle ==
    /\ [](/\ js.cb_handle # None <=> js.event_loop # None
          /\ HeldHandles = {js.cb_handle[i] : i \in 1..Len(js.cb_handle)}
          /\ js.cb_handle # None =>
                Unwrap(js.cb_handle).event_loop = Unwrap(js.event_loop)
          /\ jsOp \in {"new", "stop_running"} =>
                js.cb_handle = None /\ js.event_loop = None /\ ~Running
          /\ jsOp \in {"schedule_running", "new_running"} =>
                js.cb_handle # None /\ Running)
    /\ [][/\ (jsOp' = "stop_running" /\ js.event_loop = None) =>
                js' = js /\ callbacks' = callbacks
          /\ (jsOp' = "schedule_running" /\ js.cb_handle # None /\ js' # js) =>
                /\ js'.cb_handle # js.cb_handle
                /\ Unwrap(js.cb_handle) \notin HeldHandles']_vars

\* C22 witness: a second schedule_running in the same loop: the handle held
\* is that of the second callback, the first is gone, and a task spawned
\* before has been completed on a frame.
C22_Witness ==
    /\ jsOp = "schedule_running"
    /\ js.event_loop = Some(1)
    /\ js.cb_handle = Some([event_loop |-> 1, n |-> 2])
    /\ callbacks = [NoCallbacks EXCEPT ![1] = {2}]
    /\ js.executor.done = 1

====
